---- MODULE Spec2Model ----
(***************************************************************************)
(* Model of the gospeak type translator: the memoized walker               *)
(* parseNamedType (types.go) / ParseNamedType (internal/parser/named.go)   *)
(* and the struct flatteners parseStruct (types.go) / ParseStruct           *)
(* (internal/parser), as a call-stack machine over a heap of VarType and   *)
(* Type records.  Pointers are heap indices, NIL is the Go nil.            *)
(***************************************************************************)
EXTENDS Integers, Sequences, FiniteSets, TLC

(* ----------------------------------------------------------------------- *)
(* Bounds of the model.                                                     *)
(* ----------------------------------------------------------------------- *)

\* number of top-level translations within one parse
MaxCalls == 2

\* depth of the Go call stack the model follows
MaxDepth == 14

\* number of top-level translations in the runs checked for termination
MaxTermCalls == 1

(* ----------------------------------------------------------------------- *)
(* Host type graph (go/types objects).  Every identifier below is one type  *)
(* object; the memo is keyed by object identity.                            *)
(* ----------------------------------------------------------------------- *)

NIL == 0

schemaPkgName == <<"github.com", "golang-cz", "gospeak">>

NoTag == [present |-> FALSE, name |-> "", opts |-> <<>>]

Tag(name, opts) == [present |-> TRUE, name |-> name, opts |-> opts]

\* a struct field (types.Var plus its raw tag)
Field(name, typ, tag) ==
    [name |-> name, exported |-> TRUE, embedded |-> FALSE, typ |-> typ, tag |-> tag]

Unexported(name, typ) ==
    [name |-> name, exported |-> FALSE, embedded |-> FALSE, typ |-> typ, tag |-> NoTag]

Embedded(name, typ, tag) ==
    [name |-> name, exported |-> TRUE, embedded |-> TRUE, typ |-> typ, tag |-> tag]

HostType(kind) ==
    [kind |-> kind, name |-> "", obj |-> "", pkg |-> <<>>, underlying |-> "",
     elem |-> "", key |-> "", fields |-> <<>>, methods |-> {}]

Basic(name) == [HostType("basic") EXCEPT !.name = name]

Named(name, underlying) ==
    [HostType("named") EXCEPT !.name = name, !.obj = name, !.pkg = schemaPkgName,
                              !.underlying = underlying]

Pointer(elem) == [HostType("pointer") EXCEPT !.elem = elem]

Slice(elem) == [HostType("slice") EXCEPT !.elem = elem]

Map(key, elem) == [HostType("map") EXCEPT !.key = key, !.elem = elem]

Struct(fields) == [HostType("struct") EXCEPT !.fields = fields]

Chan(elem) == [HostType("chan") EXCEPT !.elem = elem]

\* [len]elem
Array(len, elem) == [HostType("array") EXCEPT !.name = len, !.elem = elem]

\* the methods of encoding.TextMarshaler/TextUnmarshaler and json.Marshaler/Unmarshaler
TextPair == {"MarshalText", "UnmarshalText"}

JsonPair == {"MarshalJSON", "UnmarshalJSON"}

uuidPkgName == <<"github.com", "golang-cz", "gospeak", "uuid">>

Host ==
    [ int     |-> Basic("int"),
      int64   |-> Basic("int64"),
      string  |-> Basic("string"),
      \* type Node struct { Value int; Next *Node; Children []Node }
      Node    |-> Named("Node", "Node_s"),
      Node_s  |-> Struct(<< Field("Value", "int", NoTag),
                            Field("Next", "p_Node", NoTag),
                            Field("Children", "s_Node", NoTag) >>),
      p_Node  |-> Pointer("Node"),
      s_Node  |-> Slice("Node"),
      \* type Base struct { ID int64; Kind string }
      Base    |-> Named("Base", "Base_s"),
      Base_s  |-> Struct(<< Field("ID", "int64", NoTag),
                            Field("Kind", "string", NoTag) >>),
      \* type Child struct { Kind int64; Base }
      Child   |-> Named("Child", "Child_s"),
      Child_s |-> Struct(<< Field("Kind", "int64", NoTag),
                            Embedded("Base", "Base", NoTag) >>),
      \* type Ping struct { Name string; Pong *Pong; Peers map[string]Ping }
      Ping    |-> Named("Ping", "Ping_s"),
      Ping_s  |-> Struct(<< Field("Name", "string", NoTag),
                            Field("Pong", "p_Pong", NoTag),
                            Field("Peers", "m_Ping", NoTag) >>),
      p_Pong  |-> Pointer("Pong"),
      m_Ping  |-> Map("string", "Ping"),
      \* type Pong struct { Tag string; *Ping }
      Pong    |-> Named("Pong", "Pong_s"),
      Pong_s  |-> Struct(<< Field("Tag", "string", NoTag),
                            Embedded("Ping", "p_Ping", NoTag) >>),
      p_Ping  |-> Pointer("Ping"),
      \* type User struct {
      \*     ID     int64  `json:"id,string"`
      \*     Name   string `json:"name"`
      \*     Secret string `json:"-"`
      \*     Email  string `json:"email,omitempty"`
      \*     hidden int
      \*     Base          `json:"-"`
      \*     Age    *int
      \*     Count  *int   `json:"count,string"`
      \* }
      User    |-> Named("User", "User_s"),
      User_s  |-> Struct(<< Field("ID", "int64", Tag("id", <<"string">>)),
                            Field("Name", "string", Tag("name", <<>>)),
                            Field("Secret", "string", Tag("-", <<>>)),
                            Field("Email", "string", Tag("email", <<"omitempty">>)),
                            Unexported("hidden", "int"),
                            Embedded("Base", "Base", Tag("-", <<>>)),
                            Field("Age", "p_int1", NoTag),
                            Field("Count", "p_int2", Tag("count", <<"string">>)) >>),
      p_int1  |-> Pointer("int"),
      p_int2  |-> Pointer("int"),
      \* type Outer struct { Items []struct{ X int }; Inner struct{ Y int } }
      Outer   |-> Named("Outer", "Outer_s"),
      Outer_s |-> Struct(<< Field("Items", "s_anonX", NoTag),
                            Field("Inner", "anonY", NoTag) >>),
      s_anonX |-> Slice("anonX"),
      anonX   |-> [Struct(<< Field("X", "int", NoTag) >>) EXCEPT !.name = "struct{X int}"],
      anonY   |-> [Struct(<< Field("Y", "int", NoTag) >>) EXCEPT !.name = "struct{Y int}"],
      \* type Order struct { Status Enum[int]; Mode Enum[string] }
      Order   |-> Named("Order", "Order_s"),
      Order_s |-> Struct(<< Field("Status", "EnumInt", NoTag),
                            Field("Mode", "EnumStr", NoTag) >>),
      EnumInt |-> [Named("Enum[int]", "int") EXCEPT !.obj = "Enum"],
      EnumStr |-> [Named("Enum[string]", "string") EXCEPT !.obj = "Enum"],
      byte    |-> Basic("byte"),
      \* package time: type Time struct { wall int64 }, with both marshaler pairs
      Time    |-> [Named("Time", "Time_s") EXCEPT !.pkg = <<"time">>,
                                                 !.methods = TextPair \cup JsonPair],
      Time_s  |-> Struct(<< Unexported("wall", "int64") >>),
      \* type Locale int, with MarshalText and UnmarshalText
      Locale  |-> [Named("Locale", "int") EXCEPT !.methods = TextPair],
      \* package uuid: type UUID [16]byte, with MarshalText and (*UUID).UnmarshalText
      UUID    |-> [Named("UUID", "a_byte") EXCEPT !.pkg = uuidPkgName, !.methods = TextPair],
      a_byte  |-> Array("16", "byte"),
      \* type Money struct { Cents int64 }, with both marshaler pairs
      Money   |-> [Named("Money", "Money_s") EXCEPT !.methods = TextPair \cup JsonPair],
      Money_s |-> Struct(<< Field("Cents", "int64", NoTag) >>),
      \* type Half int, with MarshalText only
      Half    |-> [Named("Half", "int") EXCEPT !.methods = {"MarshalText"}],
      \* type Event struct { At time.Time; Lang Locale; ID uuid.UUID; Cost Money; Part Half }
      Event   |-> Named("Event", "Event_s"),
      Event_s |-> Struct(<< Field("At", "Time", NoTag),
                            Field("Lang", "Locale", NoTag),
                            Field("ID", "UUID", NoTag),
                            Field("Cost", "Money", NoTag),
                            Field("Part", "Half", NoTag) >>),
      \* type Account struct {
      \*     Owner Base      `json:"owner,string"`
      \*     Nick  *string   `json:"nick,omitempty"`
      \*     Key   uuid.UUID `json:"key,omitempty"`
      \*     Since time.Time `json:"since"`
      \*     Pin   *int      `json:",string,omitempty"`
      \* }
      Account   |-> Named("Account", "Account_s"),
      Account_s |-> Struct(<< Field("Owner", "Base", Tag("owner", <<"string">>)),
                              Field("Nick", "p_string", Tag("nick", <<"omitempty">>)),
                              Field("Key", "UUID", Tag("key", <<"omitempty">>)),
                              Field("Since", "Time", Tag("since", <<>>)),
                              Field("Pin", "p_int3", Tag("", <<"string", "omitempty">>)) >>),
      p_string  |-> Pointer("string"),
      p_int3    |-> Pointer("int"),
      \* map[Base]string
      m_BaseStr |-> Map("Base", "string"),
      \* type Holder struct { Evt }
      \* type Evt struct { Origin Base; Subs []map[string]*chan int; Late Node }
      Holder    |-> Named("Holder", "Holder_s"),
      Holder_s  |-> Struct(<< Embedded("Evt", "Evt", NoTag) >>),
      Evt       |-> Named("Evt", "Evt_s"),
      Evt_s     |-> Struct(<< Field("Origin", "Base", NoTag),
                              Field("Subs", "s_m_p_ch", NoTag),
                              Field("Late", "Node", NoTag) >>),
      s_m_p_ch  |-> Slice("m_p_ch"),
      m_p_ch    |-> Map("string", "p_ch"),
      p_ch      |-> Pointer("ch_int"),
      ch_int    |-> Chan("int"),
      \* type Pair [2]Base
      Pair      |-> Named("Pair", "a_Base"),
      a_Base    |-> Array("2", "Base"),
      \* type Clash struct { Kind int64; Base; Sort string `json:"Kind"` }
      Clash     |-> Named("Clash", "Clash_s"),
      Clash_s   |-> Struct(<< Field("Kind", "int64", NoTag),
                              Embedded("Base", "Base", NoTag),
                              Field("Sort", "string", Tag("Kind", <<>>)) >>)
    ]

TypeIds == DOMAIN Host

(* ----------------------------------------------------------------------- *)
(* State.                                                                   *)
(* ----------------------------------------------------------------------- *)

VARIABLES
    host,         \* the type-checked package: type object -> its go/types description
    walker,       \* "gospeak": types.go, "parser": internal/parser
    parsedTypes,  \* the memo: host type object -> VarType pointer (NIL: no entry)
    heap,         \* the VarType records, by pointer
    typeHeap,     \* the Type records, by handle
    schemaTypes,  \* Schema.Types: handles in append order
    stack,        \* the Go call stack, innermost call last
    ret,          \* the (varType, err) pair of the call that returned last
    cur,          \* the top-level call in progress, or NoCall
    returned,     \* what the finished top-level calls returned to their callers
    panicked      \* a run-time panic ended the process

vars == <<host, walker, parsedTypes, heap, typeHeap, schemaTypes, stack, ret, cur, returned,
          panicked>>

(* ----------------------------------------------------------------------- *)
(* Name canonicalizer.  A type's String() is kept in four parts:            *)
(*   prefix  leading non-letter tokens ("*", "[]")                          *)
(*   head    text in front of the last qualified name ("map[string]")       *)
(*   path    the package path of the last qualified name, by segment        *)
(*   name    the type name                                                  *)
(* ----------------------------------------------------------------------- *)

RECURSIVE JoinPath(_)
JoinPath(path) ==
    IF path = <<>> THEN ""
    ELSE IF Len(path) = 1 THEN path[1]
    ELSE path[1] \o "/" \o JoinPath(Tail(path))

Qualified(s) ==
    s.head \o JoinPath(s.path) \o (IF s.path = <<>> THEN "" ELSE ".") \o s.name

typeStringCase(h, e, k) ==
    CASE h.kind = "named"   -> [prefix |-> "", head |-> "", path |-> h.pkg, name |-> h.name]
      [] h.kind = "pointer" -> [e EXCEPT !.prefix = "*" \o @]
      [] h.kind = "slice"   -> [e EXCEPT !.prefix = "[]" \o @]
      [] h.kind = "array"   -> [e EXCEPT !.prefix = "[" \o h.name \o "]" \o @]
      [] h.kind = "map"     -> [e EXCEPT !.prefix = "",
                                         !.head = "map[" \o k.prefix \o Qualified(k) \o "]"
                                                  \o e.prefix \o e.head]
      [] h.kind = "chan"    -> [e EXCEPT !.prefix = "", !.head = "chan " \o e.prefix \o e.head]
      [] OTHER              -> [prefix |-> "", head |-> "", path |-> <<>>, name |-> h.name]

\* types.Type.String()
TypeStringOf[t \in TypeIds] ==
    typeStringCase(host[t],
                   IF host[t].elem \in TypeIds THEN TypeStringOf[host[t].elem] ELSE <<>>,
                   IF host[t].key \in TypeIds THEN TypeStringOf[host[t].key] ELSE <<>>)

TypeString(t) == TypeStringOf[t]

trimPackage(s) ==
    IF s.head = "" /\ s.path = schemaPkgName THEN s.name
    ELSE IF s.head = "" /\ s.path = <<"command-line-arguments">> THEN s.name
    ELSE IF Len(s.path) > 1 THEN s.path[Len(s.path)] \o "." \o s.name
    ELSE Qualified(s)

invalidTypeName(name) == IF name = "invalid type" THEN "invalidType" ELSE name

goTypeNameOf(s) == s.prefix \o invalidTypeName(trimPackage(s))

goTypeName(t) == goTypeNameOf(TypeString(t))

importOf(s, n) ==
    IF s.path = <<>> THEN ""
    ELSE IF n \in {JoinPath(schemaPkgName), "command-line-arguments", "time"} THEN ""
    ELSE n

goTypeImportOf(s) == importOf(s, s.head \o JoinPath(s.path))

goTypeImport(t) == goTypeImportOf(TypeString(t))

(* ----------------------------------------------------------------------- *)
(* Tag parser.  A raw tag is kept as the json key's name and its options.   *)
(* ----------------------------------------------------------------------- *)

RECURSIVE JoinOpts(_)
JoinOpts(opts) ==
    IF opts = <<>> THEN "" ELSE "," \o opts[1] \o JoinOpts(Tail(opts))

HasOpt(opts, o) == \E k \in 1..Len(opts) : opts[k] = o

getJsonTag_NoString(tag) ==
    [ok |-> tag.present, Name |-> tag.name, Value |-> tag.name \o JoinOpts(tag.opts),
     IsString |-> FALSE, Omitempty |-> HasOpt(tag.opts, "omitempty")]

\* getJsonTag: the zero jsonTag when the tag has no json key
getJsonTag(tag) ==
    IF ~tag.present
    THEN [ok |-> FALSE, Name |-> "", Value |-> "", IsString |-> FALSE, Omitempty |-> FALSE]
    ELSE [ok |-> TRUE, Name |-> tag.name, Value |-> tag.name \o JoinOpts(tag.opts),
          IsString |-> HasOpt(tag.opts, "string"),
          Omitempty |-> HasOpt(tag.opts, "omitempty")]

\* strings.Contains(structTags, `json:",inline"`)
hasInlineTag(tag) == tag.present /\ tag.name = "" /\ tag.opts = <<"inline">>

(* ----------------------------------------------------------------------- *)
(* IR records.                                                              *)
(* ----------------------------------------------------------------------- *)

T_Unset == ""

VarType(expr, kind) ==
    [Expr |-> expr, Type |-> kind, Elem |-> NIL, Key |-> T_Unset, Value |-> NIL,
     SName |-> "", SType |-> NIL]

ListOf(expr, elem) == [VarType(expr, "T_List") EXCEPT !.Elem = elem]

MapOf(expr, key, value) == [VarType(expr, "T_Map") EXCEPT !.Key = key, !.Value = value]

StructRef(name, handle) ==
    [VarType(name, "T_Struct") EXCEPT !.SName = name, !.SType = handle]

\* schema.ParseVarTypeExpr on the name of a basic type
basicKinds ==
    [ int |-> "T_Int", int64 |-> "T_Int64", string |-> "T_String", bool |-> "T_Bool",
      byte |-> "T_Byte" ]

parseBasic(name) ==
    IF name \in DOMAIN basicKinds
    THEN [err |-> FALSE, vt |-> VarType(name, basicKinds[name])]
    ELSE [err |-> TRUE, vt |-> VarType("", T_Unset)]

\* a member of a Struct (Type = the VarType pointer) or of an Enum (Value);
\* origin names the host field it was made from
TypeField(name, vt, optional, meta, origin) ==
    [Name |-> name, Type |-> vt, Value |-> "", Optional |-> optional, Meta |-> meta,
     origin |-> origin]

EnumValue(name, value) ==
    [Name |-> name, Type |-> NIL, Value |-> value, Optional |-> FALSE, Meta |-> <<>>,
     origin |-> <<>>]

\* src names the host type the record was made for
NewType(kind, name, src) ==
    [Kind |-> kind, Name |-> name, Type |-> NIL, Fields |-> <<>>, src |-> src]

(* ----------------------------------------------------------------------- *)
(* appendOrOverrideExistingField.  The loop ranges over the slice as it was *)
(* on entry (length n, elements read from the shared backing array) while   *)
(* the body shortens the slice; slicing past the current length panics.     *)
(* ----------------------------------------------------------------------- *)

RECURSIVE overrideLoop(_, _, _, _, _)
overrideLoop(arr, len, i, n, name) ==
    IF i > n THEN [panic |-> FALSE, fields |-> SubSeq(arr, 1, len)]
    ELSE IF arr[i].Name = name
         THEN IF i > len
              THEN [panic |-> TRUE, fields |-> <<>>]
              ELSE overrideLoop([j \in 1..n |-> IF j >= i /\ j < len THEN arr[j + 1] ELSE arr[j]],
                                len - 1, i + 1, n, name)
         ELSE overrideLoop(arr, len, i + 1, n, name)

appendField_NoOverride(slice, newItem) == [panic |-> FALSE, fields |-> Append(slice, newItem)]

appendOrOverrideExistingField(slice, newItem) ==
    LET r == overrideLoop(slice, Len(slice), 1, Len(slice), newItem.Name)
    IN IF r.panic THEN r ELSE [panic |-> FALSE, fields |-> Append(r.fields, newItem)]

promoteFields_Concat(slice, embedded) == [panic |-> FALSE, fields |-> slice \o embedded]

\* the promotion loop: every field of the embedded struct, in order
RECURSIVE promoteFields(_, _)
promoteFields(slice, embedded) ==
    IF embedded = <<>> THEN [panic |-> FALSE, fields |-> slice]
    ELSE LET r == appendOrOverrideExistingField(slice, Head(embedded))
         IN IF r.panic THEN r ELSE promoteFields(r.fields, Tail(embedded))

\* no call is running; a running call remembers what its caller held when it began
NoCall == [entry |-> "", typ |-> "", types |-> <<>>, memo |-> <<>>, heap |-> <<>>,
           typeHeap |-> <<>>]

NoRet == [vt |-> NIL, err |-> FALSE]

Frame(fn, pc, name, typ) ==
    [fn |-> fn, pc |-> pc, name |-> name, typ |-> typ, ph |-> NIL, i |-> 0, st |-> NIL,
     key |-> NIL]

Top == stack[Len(stack)]

Pop == SubSeq(stack, 1, Len(stack) - 1)

SetTop(f) == [stack EXCEPT ![Len(stack)] = f]

At(fn, pc) == stack # <<>> /\ ~panicked /\ Top.fn = fn /\ Top.pc = pc

\* room for the frames one step pushes
Room == Len(stack) + 2 <= MaxDepth

Underlying(t) == IF host[t].kind = "named" THEN host[t].underlying ELSE t

(* ----------------------------------------------------------------------- *)
(* Marshaler probe, enum sentinel.                                          *)
(* ----------------------------------------------------------------------- *)

isTextMarshaler_OneHalf(t) == "MarshalText" \in host[t].methods

isTextMarshaler(t) == {"MarshalText", "UnmarshalText"} \subseteq host[t].methods

isJsonMarshaller(t) == {"MarshalJSON", "UnmarshalJSON"} \subseteq host[t].methods

\* the names with strings.HasPrefix(typeName, "Enum[") and HasSuffix(typeName, "]")
EnumShaped == {"Enum[int]", "Enum[string]"}

\* the type declarations of p.pkg.Syntax whose right-hand side is an identifier,
\* with the lines of their documentation block
PkgSyntax ==
    << [rhs |-> "Enum", doc |-> << [name |-> "approved", eq |-> TRUE, value |-> "0"],
                                   [name |-> "pending", eq |-> FALSE, value |-> ""] >>],
       [rhs |-> "Node", doc |-> << [name |-> "alias", eq |-> FALSE, value |-> ""] >>],
       [rhs |-> "Enum", doc |-> << [name |-> "fast", eq |-> FALSE, value |-> ""],
                                   [name |-> "slow", eq |-> TRUE, value |-> "5"] >>] >>

NatString(n) == IF n = 0 THEN "0" ELSE IF n = 1 THEN "1" ELSE IF n = 2 THEN "2" ELSE "3"

docValues(doc) ==
    [k \in 1..Len(doc) |->
        EnumValue(doc[k].name, IF doc[k].eq THEN doc[k].value ELSE NatString(k - 1))]

RECURSIVE enumValues(_)
enumValues(decls) ==
    IF decls = <<>> THEN <<>>
    ELSE (IF Head(decls).rhs = "Enum" THEN docValues(Head(decls).doc) ELSE <<>>)
         \o enumValues(Tail(decls))

\* p.ParsedEnumTypes of the internal parser: type string -> enum name
ParsedEnumTypes == <<>>

(* ----------------------------------------------------------------------- *)
(* The type switch of parseNamedType (types.go) and of ParseNamedType       *)
(* (internal/parser/named.go): what the call does once it owns the memo     *)
(* entry.  op is "leaf" (return vt, inner being a VarType it points to),    *)
(* "tail"/"enum" (call the walker on typ under name) or "struct", "slice",  *)
(* "map" (call that function under name).                                   *)
(* ----------------------------------------------------------------------- *)

NoVT == VarType("", T_Unset)

Leaf(vt) == [op |-> "leaf", err |-> FALSE, vt |-> vt, inner |-> FALSE, elem |-> NoVT,
             name |-> "", typ |-> ""]

LeafList(expr, elem) == [Leaf(VarType(expr, "T_List")) EXCEPT !.inner = TRUE, !.elem = elem]

LeafErr == [Leaf(NoVT) EXCEPT !.err = TRUE]

Call(op, name, typ) == [Leaf(NoVT) EXCEPT !.op = op, !.name = name, !.typ = typ]

leafOf(b) == IF b.err THEN LeafErr ELSE Leaf(b.vt)

listOfBasic(b) == IF b.err THEN LeafErr ELSE LeafList("[]" \o b.vt.Expr, b.vt)

\* a named slice or array: []any for a json marshaler, a list of the basic element
\* type, or else the walker on the underlying type u itself
namedSliceCase(u, elem, jsonM, tailName) ==
    IF jsonM THEN LeafList("[]any", VarType("any", "T_Any"))
    ELSE IF host[elem].kind = "basic" THEN listOfBasic(parseBasic(host[elem].name))
    ELSE Call("tail", tailName, u)

\* case *types.Named of types.go; tn is goTypeName(v), u the underlying type
parseNamedTypeNamed(t, h, u, tn) ==
    IF h.pkg = <<"time">> /\ tn = "Time"
    THEN Leaf(VarType("timestamp", "T_Timestamp"))
    ELSE IF h.pkg = <<"github.com", "golang-cz", "gospeak">> /\ tn \in EnumShaped
    THEN Call("enum", goTypeName(u), u)
    ELSE IF isTextMarshaler(t)
    THEN Leaf(VarType("string", "T_String"))
    ELSE IF host[u].kind = "pointer"
    THEN Call("tail", goTypeName(u), u)
    ELSE IF host[u].kind \in {"slice", "array"}
    THEN namedSliceCase(u, Underlying(host[u].elem), isJsonMarshaller(t), goTypeName(u))
    ELSE IF isJsonMarshaller(t)
    THEN Leaf(VarType("any", "T_Any"))
    ELSE Call("tail", tn, u)

\* the cases of the switch on the kind of typ; named is the result of the Named
\* case and ptrName the name an unnamed pointer passes on
switchOnKind(typeName, t, h, named, ptrName) ==
    CASE h.kind = "named"     -> named
      [] h.kind = "basic"     -> leafOf(parseBasic(h.name))
      [] h.kind = "struct"    -> Call("struct", typeName, t)
      [] h.kind = "slice"     -> Call("slice", typeName, t)
      [] h.kind = "interface" -> Leaf(VarType("any", "T_Any"))
      [] h.kind = "map"       -> Call("map", typeName, t)
      [] h.kind = "pointer"   -> Call("tail", ptrName, h.elem)
      [] OTHER                -> LeafErr

parseNamedTypeSwitch(typeName, t) ==
    switchOnKind(typeName, t, host[t],
                 parseNamedTypeNamed(t, host[t], host[t].underlying, goTypeName(t)),
                 IF typeName = "" THEN goTypeName(t) ELSE typeName)

\* p.GoTypeName of the internal parser
GoTypeName(t) == goTypeName(t)

\* case *types.Named of internal/parser/named.go; the named type is the parent of
\* what it recurses into
ParseNamedTypeNamed(t, u, tn) ==
    IF tn = "time.Time"
    THEN Leaf(VarType("timestamp", "T_Timestamp"))
    ELSE IF t \in DOMAIN ParsedEnumTypes
    THEN Leaf(VarType(ParsedEnumTypes[t], "T_String"))
    ELSE IF isTextMarshaler(t)
    THEN Leaf(VarType("string", "T_String"))
    ELSE IF host[u].kind = "pointer"
    THEN Call("tail", tn, u)
    ELSE IF host[u].kind \in {"slice", "array"}
    THEN namedSliceCase(u, Underlying(host[u].elem), isJsonMarshaller(t), tn)
    ELSE IF isJsonMarshaller(t)
    THEN Leaf(VarType("any", "T_Any"))
    ELSE Call("tail", tn, u)

ParseNamedTypeSwitch(parent, t) ==
    switchOnKind(parent, t, host[t],
                 ParseNamedTypeNamed(t, host[t].underlying, GoTypeName(t)), parent)

typeSwitch(name, t) ==
    IF walker = "gospeak" THEN parseNamedTypeSwitch(name, t) ELSE ParseNamedTypeSwitch(name, t)

(* ----------------------------------------------------------------------- *)
(* Struct flatteners: what one turn of the field loop does with field f.    *)
(* op is "skip", "promote" (translate the embedded type), "string" (the    *)
(* field is emitted as a string without translating its type) or "call"    *)
(* (translate the field's type under callName).                             *)
(* ----------------------------------------------------------------------- *)

fieldMeta(f, goFieldType, import, withTag, tagValue) ==
    << <<"go.field.name", f.name>>, <<"go.field.type", goFieldType>> >>
    \o (IF import # "" THEN << <<"go.type.import", import>> >> ELSE <<>>)
    \o (IF withTag THEN << <<"go.tag.json", tagValue>> >> ELSE <<>>)

Plan(op, name, optional, meta, callName) ==
    [op |-> op, Name |-> name, Optional |-> optional, Meta |-> meta, callName |-> callName]

SkipPlan == Plan("skip", "", FALSE, <<>>, "")

parseStructFieldOn_Plain(structTypeName, f, jsonTag, goFieldType, goFieldImport, under) ==
    IF jsonTag.ok /\ jsonTag.Name = "-" THEN SkipPlan
    ELSE IF jsonTag.ok /\ jsonTag.IsString
    THEN Plan("string", IF jsonTag.Name # "" THEN jsonTag.Name ELSE f.name,
              jsonTag.Omitempty,
              fieldMeta(f, goFieldType, goFieldImport, TRUE, jsonTag.Value), "")
    ELSE Plan("call", IF jsonTag.ok /\ jsonTag.Name # "" THEN jsonTag.Name ELSE f.name,
              (jsonTag.ok /\ jsonTag.Omitempty) \/ under = "pointer",
              fieldMeta(f, goFieldType, goFieldImport, jsonTag.Value # "", jsonTag.Value),
              structTypeName)

\* parseStructField of types.go, from the tag, the canonical type name and import
\* of the field and the kind of its underlying type
parseStructFieldOn(structTypeName, f, jsonTag, goFieldType, goFieldImport, under) ==
    IF jsonTag.ok /\ jsonTag.Name = "-" THEN SkipPlan
    ELSE IF jsonTag.ok /\ jsonTag.IsString
    THEN Plan("string", IF jsonTag.Name # "" THEN jsonTag.Name ELSE f.name,
              jsonTag.Omitempty,
              fieldMeta(f, goFieldType, goFieldImport, TRUE, jsonTag.Value), "")
    ELSE Plan("call", IF jsonTag.ok /\ jsonTag.Name # "" THEN jsonTag.Name ELSE f.name,
              (jsonTag.ok /\ jsonTag.Omitempty) \/ under = "pointer",
              fieldMeta(f, goFieldType, goFieldImport, jsonTag.Value # "", jsonTag.Value),
              IF under = "struct" THEN structTypeName \o "Anonymous" \o f.name
              ELSE structTypeName)

parseStructField(structTypeName, f) ==
    parseStructFieldOn(structTypeName, f, getJsonTag(f.tag), goTypeName(f.typ),
                       goTypeImport(f.typ), host[Underlying(f.typ)].kind)

\* one turn of the field loop of parseStruct (types.go)
parseStructStep(typeName, f) ==
    IF ~f.exported THEN SkipPlan
    ELSE IF f.embedded \/ hasInlineTag(f.tag) THEN Plan("promote", "", FALSE, <<>>, "")
    ELSE parseStructField(typeName, f)

inlineOf(tag, j) ==
    [Name |-> j.Name, Value |-> j.Value, IsString |-> j.IsString, Omitempty |-> j.Omitempty,
     Inline |-> tag.present /\ HasOpt(tag.opts, "inline")]

\* GetJsonTag of the internal parser: getJsonTag plus the inline option
GetJsonTag(tag) == inlineOf(tag, getJsonTag(tag))

GoTypeImport(t) == goTypeImport(t)

\* the recorded host type expression: prefixed once for omitempty, once more for a
\* pointer
omitemptyPrefix(jsonTag, goFieldType) ==
    IF jsonTag.Omitempty THEN "*" \o goFieldType ELSE goFieldType

pointerPrefix(under, goFieldType) ==
    IF under = "pointer" THEN "*" \o goFieldType ELSE goFieldType

\* parseStructField of internal/parser; t1 is the type expression after the
\* omitempty prefix, t2 after the pointer prefix
Parser_parseStructFieldOn(f, jsonTag, goFieldImport, under, t1, t2) ==
    IF jsonTag.Name = "-" THEN SkipPlan
    ELSE IF jsonTag.IsString
    THEN Plan("string", IF jsonTag.Name # "" THEN jsonTag.Name ELSE f.name,
              jsonTag.Omitempty,
              fieldMeta(f, t1, goFieldImport, TRUE, jsonTag.Value), "")
    ELSE Plan("call", IF jsonTag.Name # "" THEN jsonTag.Name ELSE f.name,
              jsonTag.Omitempty \/ under = "pointer",
              fieldMeta(f, t2, goFieldImport, jsonTag.Value # "", jsonTag.Value), t2)

Parser_parseStructField(structTypeName, f, jsonTag) ==
    Parser_parseStructFieldOn(f, jsonTag, GoTypeImport(f.typ), host[Underlying(f.typ)].kind,
        omitemptyPrefix(jsonTag, GoTypeName(f.typ)),
        pointerPrefix(host[Underlying(f.typ)].kind, omitemptyPrefix(jsonTag, GoTypeName(f.typ))))

ParseStructOn(goTypeName_, f, jsonTag) ==
    IF ~f.exported THEN SkipPlan
    ELSE IF jsonTag.Name = "-" THEN SkipPlan
    ELSE IF f.embedded \/ jsonTag.Inline THEN Plan("promote", "", FALSE, <<>>, "")
    ELSE Parser_parseStructField(goTypeName_ \o "Field", f, jsonTag)

\* one turn of the field loop of ParseStruct (internal/parser)
ParseStructStep(goTypeName_, f) == ParseStructOn(goTypeName_, f, GetJsonTag(f.tag))

structStep(name, f) ==
    IF walker = "gospeak" THEN parseStructStep(name, f) ELSE ParseStructStep(name, f)

\* p.GoTypeNameToWebrpc of the internal parser
GoTypeNameToWebrpc(goTypeName_) == goTypeName_

\* Name of the Type record a flattener makes for the name it was called with
structTypeName(name) == IF walker = "gospeak" THEN name ELSE GoTypeNameToWebrpc(name)

Init ==
    /\ host = Host
    /\ walker \in {"gospeak", "parser"}
    /\ parsedTypes = [t \in TypeIds |-> NIL]
    /\ heap = <<>>
    /\ typeHeap = <<>>
    /\ schemaTypes = <<>>
    /\ stack = <<>>
    /\ ret = NoRet
    /\ cur = NoCall
    /\ returned = <<>>
    /\ panicked = FALSE

(* ----------------------------------------------------------------------- *)
(* Top-level calls.                                                         *)
(* ----------------------------------------------------------------------- *)

\* the host types the collector hands to the translator
Roots == {"Node", "Child", "Base", "Ping", "Pong", "User", "Outer", "Order",
          "Event", "Account", "m_BaseStr", "Holder", "Pair", "Clash"}

\* the declared structs a caller hands to ParseStruct directly
StructRoots == {"Node", "Child", "User"}

Idle(limit) == stack = <<>> /\ cur = NoCall /\ ~panicked /\ Len(returned) < limit

\* the frame of a call of parseStruct / ParseStruct: structType is allocated first
StructFrame(name, typ) ==
    [Frame("parseStruct", "loop", name, typ) EXCEPT !.i = 1, !.st = Len(typeHeap) + 1]

\* parseType(typ) == parseNamedType("", typ), as one of at most limit calls
parseTypeWithin(limit, t) ==
    /\ Idle(limit)
    /\ cur' = [entry |-> "parseType", typ |-> t, types |-> schemaTypes, memo |-> parsedTypes,
               heap |-> heap, typeHeap |-> typeHeap]
    /\ stack' = << Frame("parseNamedType", "enter", "", t) >>
    /\ ret' = NoRet
    /\ UNCHANGED <<host, walker, parsedTypes, heap, typeHeap, schemaTypes, returned, panicked>>

parseType(t) == parseTypeWithin(MaxCalls, t)

\* ParseStruct(name, struct) called by the caller itself, as the package's test does
ParseStructWithin(limit, t) ==
    /\ Idle(limit)
    /\ walker = "parser"
    /\ cur' = [entry |-> "ParseStruct", typ |-> t, types |-> schemaTypes, memo |-> parsedTypes,
               heap |-> heap, typeHeap |-> typeHeap]
    /\ stack' = << StructFrame(host[t].name, host[t].underlying) >>
    /\ typeHeap' = Append(typeHeap, NewType("struct", structTypeName(host[t].name), host[t].underlying))
    /\ ret' = NoRet
    /\ UNCHANGED <<host, walker, parsedTypes, heap, schemaTypes, returned, panicked>>

ParseStruct(t) == ParseStructWithin(MaxCalls, t)

\* the top-level call has returned to its caller, which keeps what it returned, with
\* Schema.Types and the memo as they were before and after the call
TopReturn ==
    /\ stack = <<>> /\ cur # NoCall /\ ~panicked
    /\ returned' = Append(returned, [entry |-> cur.entry, typ |-> cur.typ, vt |-> ret.vt,
                                      err |-> ret.err, before |-> cur.types,
                                      after |-> schemaTypes, memoBefore |-> cur.memo,
                                      memoAfter |-> parsedTypes])
    /\ cur' = NoCall
    /\ UNCHANGED <<host, walker, parsedTypes, heap, typeHeap, schemaTypes, stack, ret, panicked>>

(* ----------------------------------------------------------------------- *)
(* parseNamedType / ParseNamedType.                                         *)
(* ----------------------------------------------------------------------- *)

claimMemo_Late(memo, t, ph) == memo

\* memo lookup; on a miss the placeholder is stored before anything else runs
claimMemo(memo, t, ph) == [memo EXCEPT ![t] = ph]

memoHit_Never(memo, t) == FALSE

\* if parsedType, ok := p.parsedTypes[typ]; ok
memoHit(memo, t) == memo[t] # NIL

NamedTypeEnter ==
    /\ At("parseNamedType", "enter")
    /\ IF memoHit(parsedTypes, Top.typ)
       THEN /\ ret' = [vt |-> parsedTypes[Top.typ], err |-> FALSE]
            /\ stack' = Pop
            /\ UNCHANGED <<parsedTypes, heap>>
       ELSE /\ heap' = Append(heap, VarType(Top.name, T_Unset))
            /\ parsedTypes' = claimMemo(parsedTypes, Top.typ, Len(heap) + 1)
            /\ stack' = SetTop([Top EXCEPT !.ph = Len(heap) + 1, !.pc = "switch"])
            /\ UNCHANGED ret
    /\ UNCHANGED <<host, walker, typeHeap, schemaTypes, cur, returned, panicked>>

Switch == typeSwitch(Top.name, Top.typ)

AtSwitch(op) == At("parseNamedType", "switch") /\ Switch.op = op

DoSwitchReturn(sw) ==
    /\ IF sw.err
       THEN /\ ret' = [vt |-> NIL, err |-> TRUE]
            /\ UNCHANGED heap
       ELSE IF sw.inner
       THEN /\ heap' = heap \o << sw.elem, [sw.vt EXCEPT !.Elem = Len(heap) + 1] >>
            /\ ret' = [vt |-> Len(heap) + 2, err |-> FALSE]
       ELSE /\ heap' = Append(heap, sw.vt)
            /\ ret' = [vt |-> Len(heap) + 1, err |-> FALSE]
    /\ stack' = SetTop([Top EXCEPT !.pc = "defer"])
    /\ UNCHANGED <<host, walker, parsedTypes, typeHeap, schemaTypes, cur, returned, panicked>>

\* the cases of the switch that return without calling anything
SwitchReturn == AtSwitch("leaf") /\ DoSwitchReturn(Switch)

\* the caller waits at pc for the frames pushed on top of it
PushCall(pc, frames) ==
    /\ Room
    /\ stack' = SetTop([Top EXCEPT !.pc = pc]) \o frames
    /\ UNCHANGED <<host, walker, parsedTypes, heap, schemaTypes, ret, cur, returned, panicked>>

WalkerFrame(name, typ) == Frame("parseNamedType", "enter", name, typ)

DoSwitchCall(pc, sw) == PushCall(pc, << WalkerFrame(sw.name, sw.typ) >>)

\* return p.parseNamedType(name, typ)
SwitchTailCall == AtSwitch("tail") /\ DoSwitchCall("defer", Switch) /\ UNCHANGED typeHeap

\* the sentinel enum: translate the underlying type first
SwitchEnum == AtSwitch("enum") /\ DoSwitchCall("enum", Switch) /\ UNCHANGED typeHeap

\* the enum Type is registered and an EnumRef (kind T_Struct) returned
EnumReturn ==
    /\ At("parseNamedType", "enum")
    /\ IF ret.err
       THEN /\ ret' = [vt |-> NIL, err |-> TRUE]
            /\ UNCHANGED <<heap, typeHeap, schemaTypes>>
       ELSE /\ typeHeap' = Append(typeHeap,
                    [NewType("enum", host[Top.typ].obj, Top.typ) EXCEPT
                        !.Type = ret.vt, !.Fields = enumValues(PkgSyntax)])
            /\ schemaTypes' = Append(schemaTypes, Len(typeHeap) + 1)
            /\ heap' = Append(heap, StructRef(host[Top.typ].obj, Len(typeHeap) + 1))
            /\ ret' = [vt |-> Len(heap) + 1, err |-> FALSE]
    /\ stack' = SetTop([Top EXCEPT !.pc = "defer"])
    /\ UNCHANGED <<host, walker, parsedTypes, cur, returned, panicked>>

DoSwitchStruct(sw) ==
    /\ PushCall("defer", << StructFrame(sw.name, sw.typ) >>)
    /\ typeHeap' = Append(typeHeap, NewType("struct", structTypeName(sw.name), sw.typ))

\* return p.parseStruct(typeName, v)
SwitchStruct == AtSwitch("struct") /\ DoSwitchStruct(Switch)

DoSwitchSlice(sw) ==
    PushCall("defer", << Frame("parseSlice", "elem", sw.name, sw.typ),
                         WalkerFrame(sw.name, host[sw.typ].elem) >>)

\* return p.parseSlice(typeName, v), which translates the element first
SwitchSlice == AtSwitch("slice") /\ DoSwitchSlice(Switch) /\ UNCHANGED typeHeap

DoSwitchMap(sw) ==
    PushCall("defer", << Frame("parseMap", "key", sw.name, sw.typ),
                         WalkerFrame(sw.name, host[sw.typ].key) >>)

\* return p.parseMap(typeName, v), which translates the key first
SwitchMap == AtSwitch("map") /\ DoSwitchMap(Switch) /\ UNCHANGED typeHeap

deferBackfill_Source(h, ph, vt) == [h EXCEPT ![vt] = h[ph]]

\* the deferred function: what was returned is copied into the placeholder
deferBackfill(h, ph, vt) == [h EXCEPT ![ph] = h[vt]]

Defer ==
    /\ At("parseNamedType", "defer")
    /\ IF ret.vt # NIL
       THEN /\ heap' = deferBackfill(heap, Top.ph, ret.vt)
            /\ ret' = [ret EXCEPT !.vt = Top.ph]
       ELSE UNCHANGED <<heap, ret>>
    /\ stack' = Pop
    /\ UNCHANGED <<host, walker, parsedTypes, typeHeap, schemaTypes, cur, returned, panicked>>

(* ----------------------------------------------------------------------- *)
(* parseSlice, parseMap.                                                    *)
(* ----------------------------------------------------------------------- *)

ReturnErr_Swallow ==
    /\ ret' = [vt |-> NIL, err |-> FALSE]
    /\ stack' = Pop

\* if err != nil { return nil, fmt.Errorf("...: %w", err) }
ReturnErr ==
    /\ ret' = [vt |-> NIL, err |-> TRUE]
    /\ stack' = Pop

\* Expr is built from the element's Expr as it is now
sliceVarType(h, elem) == ListOf("[]" \o h[elem].Expr, elem)

SliceReturn ==
    /\ At("parseSlice", "elem")
    /\ IF ret.err
       THEN ReturnErr /\ UNCHANGED heap
       ELSE /\ heap' = Append(heap, sliceVarType(heap, ret.vt))
            /\ ret' = [vt |-> Len(heap) + 1, err |-> FALSE]
            /\ stack' = Pop
    /\ UNCHANGED <<host, walker, parsedTypes, typeHeap, schemaTypes, cur, returned, panicked>>

\* the key is translated; the value is next
MapKeyReturn ==
    /\ At("parseMap", "key")
    /\ IF ret.err
       THEN ReturnErr
       ELSE /\ stack' = Append(SetTop([Top EXCEPT !.pc = "value", !.key = ret.vt]),
                               Frame("parseNamedType", "enter", Top.name, host[Top.typ].elem))
            /\ UNCHANGED ret
    /\ UNCHANGED <<host, walker, parsedTypes, heap, typeHeap, schemaTypes, cur, returned, panicked>>

mapVarType(h, key, value) ==
    MapOf("map<" \o h[key].Expr \o "," \o h[value].Expr \o ">", h[key].Type, value)

MapValueReturn ==
    /\ At("parseMap", "value")
    /\ IF ret.err
       THEN ReturnErr /\ UNCHANGED heap
       ELSE /\ heap' = Append(heap, mapVarType(heap, Top.key, ret.vt))
            /\ ret' = [vt |-> Len(heap) + 1, err |-> FALSE]
            /\ stack' = Pop
    /\ UNCHANGED <<host, walker, parsedTypes, typeHeap, schemaTypes, cur, returned, panicked>>

(* ----------------------------------------------------------------------- *)
(* parseStruct / ParseStruct: the field loop, one field per turn.           *)
(* ----------------------------------------------------------------------- *)

NumFields == Len(host[Top.typ].fields)

CurField == host[Top.typ].fields[Top.i]

Step == structStep(Top.name, CurField)

InLoop == At("parseStruct", "loop") /\ Top.i <= NumFields

NextField == SetTop([Top EXCEPT !.i = @ + 1, !.pc = "loop"])

\* structType.Fields = appendOrOverrideExistingField(structType.Fields, field), or a panic
SetFields(r) ==
    IF r.panic
    THEN /\ panicked' = TRUE
         /\ UNCHANGED <<typeHeap, stack>>
    ELSE /\ typeHeap' = [typeHeap EXCEPT ![Top.st].Fields = r.fields]
         /\ stack' = NextField
         /\ UNCHANGED panicked

AtStep(op) == InLoop /\ Step.op = op

\* an unexported or ignored field
StructSkip ==
    /\ AtStep("skip")
    /\ stack' = NextField
    /\ UNCHANGED <<host, walker, parsedTypes, heap, typeHeap, schemaTypes, ret, cur, returned,
                   panicked>>

\* an embedded or inline field: translate its type under the empty name
StructPromote ==
    /\ AtStep("promote")
    /\ PushCall("embedded", << WalkerFrame("", CurField.typ) >>)
    /\ UNCHANGED typeHeap

\* the fields to splice in: those of the referenced Type when the result is a T_Struct
promoted(h, th, vt) == IF h[vt].Type = "T_Struct" THEN th[h[vt].SType].Fields ELSE <<>>

StructPromoteReturn ==
    /\ At("parseStruct", "embedded")
    /\ IF ret.err
       THEN ReturnErr /\ UNCHANGED <<typeHeap, panicked>>
       ELSE /\ SetFields(promoteFields(typeHeap[Top.st].Fields, promoted(heap, typeHeap, ret.vt)))
            /\ UNCHANGED ret
    /\ UNCHANGED <<host, walker, parsedTypes, heap, schemaTypes, cur, returned>>

\* the TypeField of the current field, its type being vt
newField(step, vt) == TypeField(step.Name, vt, step.Optional, step.Meta, <<Top.typ, Top.i>>)

\* a field with the string option: emitted as a string, its type is not translated
StructFieldString ==
    /\ AtStep("string")
    /\ heap' = Append(heap, VarType("string", "T_String"))
    /\ SetFields(appendOrOverrideExistingField(typeHeap[Top.st].Fields,
                                               newField(Step, Len(heap) + 1)))
    /\ UNCHANGED <<host, walker, parsedTypes, schemaTypes, ret, cur, returned>>

DoFieldCall(step) == PushCall("field", << WalkerFrame(step.callName, CurField.typ) >>)

\* any other field: translate its type
StructFieldCall == AtStep("call") /\ DoFieldCall(Step) /\ UNCHANGED typeHeap

StructFieldReturn ==
    /\ At("parseStruct", "field")
    /\ IF ret.err
       THEN ReturnErr /\ UNCHANGED <<typeHeap, panicked>>
       ELSE /\ SetFields(appendOrOverrideExistingField(typeHeap[Top.st].Fields,
                                                       newField(Step, ret.vt)))
            /\ UNCHANGED ret
    /\ UNCHANGED <<host, walker, parsedTypes, heap, schemaTypes, cur, returned>>

registerType_Twice(types, handle) == types \o <<handle, handle>>

registerType_Front(types, handle) == <<handle>> \o types

\* p.schema.Types = append(p.schema.Types, structType)
registerType(types, handle) == Append(types, handle)

\* after the last field: register the Type, return a StructRef to it
StructFinish ==
    /\ At("parseStruct", "loop")
    /\ Top.i > NumFields
    /\ schemaTypes' = registerType(schemaTypes, Top.st)
    /\ heap' = Append(heap, StructRef(typeHeap[Top.st].Name, Top.st))
    /\ ret' = [vt |-> Len(heap) + 1, err |-> FALSE]
    /\ stack' = Pop
    /\ UNCHANGED <<host, walker, parsedTypes, typeHeap, cur, returned, panicked>>

\* the steps of a running call
Steps ==
    \/ TopReturn
    \/ NamedTypeEnter
    \/ SwitchReturn
    \/ SwitchTailCall
    \/ SwitchEnum
    \/ EnumReturn
    \/ SwitchStruct
    \/ SwitchSlice
    \/ SwitchMap
    \/ Defer
    \/ SliceReturn
    \/ MapKeyReturn
    \/ MapValueReturn
    \/ StructSkip
    \/ StructPromote
    \/ StructPromoteReturn
    \/ StructFieldString
    \/ StructFieldCall
    \/ StructFieldReturn
    \/ StructFinish

Next ==
    \/ \E t \in Roots : parseType(t)
    \/ \E t \in StructRoots : ParseStruct(t)
    \/ Steps

Spec == Init /\ [][Next]_vars

TermNext ==
    \/ \E t \in Roots : parseTypeWithin(MaxTermCalls, t)
    \/ \E t \in StructRoots : ParseStructWithin(MaxTermCalls, t)
    \/ Steps

\* the translator is sequential code: a running call takes its next step
TermSpec == Init /\ [][TermNext]_vars /\ WF_vars(Steps)

(* ----------------------------------------------------------------------- *)
(* Vocabulary of the properties.                                            *)
(* ----------------------------------------------------------------------- *)

\* the handles in Schema.Types
Registered == {schemaTypes[k] : k \in 1..Len(schemaTypes)}

Count(seq, x) == Cardinality({k \in 1..Len(seq) : seq[k] = x})

\* no top-level call is running
Quiet == cur = NoCall

\* the registered Struct Types
RegisteredStructs == {h \in Registered : typeHeap[h].Kind = "struct"}

\* the host field a TypeField was made from
HostField(f) == host[f.origin[1]].fields[f.origin[2]]

FieldNames(fields) == [k \in 1..Len(fields) |-> fields[k].Name]

\* the declared struct behind a field type S or *S, or "" when it is neither
StructBehind(t) ==
    IF host[t].kind = "named" /\ host[host[t].underlying].kind = "struct" THEN t
    ELSE IF host[t].kind = "pointer" /\ host[host[t].elem].kind = "named"
            /\ host[host[host[t].elem].underlying].kind = "struct" THEN host[t].elem
    ELSE ""

(* ----------------------------------------------------------------------- *)
(* C1.  Every top-level call of the walker returns, on cyclic type graphs  *)
(* too: a type object owns its memo entry from the moment it is expanded,  *)
(* no type object is expanded twice at a time, and a call that has started *)
(* leads to its return.                                                     *)
(* ----------------------------------------------------------------------- *)

Expanding == {k \in 1..Len(stack) : stack[k].fn = "parseNamedType" /\ stack[k].pc # "enter"}

ClaimedBeforeChildren ==
    /\ \A k \in Expanding : parsedTypes[stack[k].typ] = stack[k].ph /\ stack[k].ph # NIL
    /\ \A k, l \in Expanding : stack[k].typ = stack[l].typ => k = l

\* a type object is expanded only while it has no memo entry, and an entry stays
ExpandedOnce ==
    /\ \A k \in 1..Len(stack') :
           stack'[k].fn = "parseNamedType" /\ stack'[k].pc = "switch" /\ k \notin Expanding
           => parsedTypes[stack'[k].typ] = NIL
    /\ \A t \in TypeIds : parsedTypes[t] # NIL => parsedTypes'[t] = parsedTypes[t]

C1_Terminates == []ClaimedBeforeChildren /\ [][ExpandedOnce]_vars /\ ((~Quiet) ~> Quiet)

\* the mutually recursive Ping/Pong (pointer, map and embedding) was translated
C1_Witness ==
    \E k \in 1..Len(returned) :
        /\ returned[k].typ \in {"Ping", "Pong"}
        /\ ~returned[k].err
        /\ parsedTypes["p_Ping"] # NIL /\ parsedTypes["m_Ping"] # NIL

(* ----------------------------------------------------------------------- *)
(* C2.  Once the top-level call has returned, a field whose type is a      *)
(* pointer to a declared struct is a StructRef named as that struct, with  *)
(* the registered Type of that name as its handle, and is Optional.        *)
(* ----------------------------------------------------------------------- *)

IsFinalRef(f, target) ==
    /\ heap[f.Type].Type = "T_Struct"
    /\ heap[f.Type].SName = goTypeName(target)
    /\ heap[f.Type].SType \in Registered
    /\ typeHeap[heap[f.Type].SType].Name = goTypeName(target)
    /\ f.Optional

C2_CyclicEdgeResolved ==
    Quiet =>
        \A h \in RegisteredStructs : \A k \in 1..Len(typeHeap[h].Fields) :
            host[HostField(typeHeap[h].Fields[k]).typ].kind = "pointer" /\
            StructBehind(HostField(typeHeap[h].Fields[k]).typ) # "" /\
            ~getJsonTag(HostField(typeHeap[h].Fields[k]).tag).IsString
            => IsFinalRef(typeHeap[h].Fields[k],
                          StructBehind(HostField(typeHeap[h].Fields[k]).typ))

(* ----------------------------------------------------------------------- *)
(* C3.  Every VarType of kind T_Struct (a StructRef or an EnumRef) carries *)
(* a Type handle that occurs exactly once in Schema.Types.                  *)
(* ----------------------------------------------------------------------- *)

C3_RefsRegisteredOnce ==
    \A p \in 1..Len(heap) :
        heap[p].Type = "T_Struct" =>
            heap[p].SType # NIL /\ Count(schemaTypes, heap[p].SType) = 1

\* a StructRef hangs off a field of a registered Type after a call has returned
C3_Witness ==
    /\ Quiet /\ returned # <<>>
    /\ \E h \in RegisteredStructs : \E k \in 1..Len(typeHeap[h].Fields) :
           heap[typeHeap[h].Fields[k].Type].Type = "T_Struct"

(* ----------------------------------------------------------------------- *)
(* C4.  No two records of Schema.Types have the same name.                  *)
(* ----------------------------------------------------------------------- *)

C4_UniqueTypeNames ==
    \A i, j \in 1..Len(schemaTypes) :
        i # j => typeHeap[schemaTypes[i]].Name # typeHeap[schemaTypes[j]].Name

(* ----------------------------------------------------------------------- *)
(* C5.  The field names of a Struct Type are pairwise distinct; a write of *)
(* fields removes the earlier entries of the same names, keeps the others  *)
(* in their order and puts the written fields at the tail; Child is        *)
(* flattened to [ID, Kind], both taken from Base.                          *)
(* ----------------------------------------------------------------------- *)

StructTypes == {h \in 1..Len(typeHeap) : typeHeap[h].Kind = "struct"}

DistinctFieldNames ==
    \A h \in StructTypes : \A i, j \in 1..Len(typeHeap[h].Fields) :
        typeHeap[h].Fields[i].Name = typeHeap[h].Fields[j].Name => i = j

\* the fields the current step of the flattener writes
Written ==
    IF Top.pc = "embedded" THEN promoted(heap, typeHeap, ret.vt)
    ELSE IF Top.pc = "field" THEN << newField(Step, ret.vt) >>
    ELSE << newField(Step, Len(heap) + 1) >>

Kept(old, written) ==
    SelectSeq(old, LAMBDA f : \A j \in 1..Len(written) : written[j].Name # f.Name)

LastWriteWins ==
    \A h \in 1..Len(typeHeap) :
        typeHeap'[h].Fields # typeHeap[h].Fields
        => typeHeap'[h].Fields = Kept(typeHeap[h].Fields, Written) \o Written

ChildFlattened ==
    \A h \in Registered :
        typeHeap[h].src = "Child_s"
        => /\ FieldNames(typeHeap[h].Fields) = <<"ID", "Kind">>
           /\ \A k \in 1..2 : typeHeap[h].Fields[k].origin = <<"Base_s", k>>

C5_LastWriteWins ==
    [](DistinctFieldNames /\ ChildFlattened /\ ~panicked) /\ [][LastWriteWins]_vars

\* Child is registered, its own Kind replaced by the Kind promoted from Base
C5_Witness ==
    \E h \in Registered :
        /\ typeHeap[h].src = "Child_s"
        /\ Len(typeHeap[h].Fields) = 2
        /\ typeHeap[h].Fields[2].Name = "Kind"
        /\ typeHeap[h].Fields[2].origin = <<"Base_s", 2>>

(* ----------------------------------------------------------------------- *)
(* C6.  A top-level translation of a type that has a memo entry returns    *)
(* that entry's pointer without an error, leaves Schema.Types and the memo *)
(* as they were, and the pointer is the one an earlier successful call on  *)
(* the same type returned.                                                 *)
(* ----------------------------------------------------------------------- *)

Translations == {k \in 1..Len(returned) : returned[k].entry = "parseType"}

C6_MemoLookupIsPure ==
    \A k \in Translations :
        /\ returned[k].memoBefore[returned[k].typ] # NIL
           => /\ ~returned[k].err
              /\ returned[k].vt = returned[k].memoBefore[returned[k].typ]
              /\ returned[k].after = returned[k].before
              /\ returned[k].memoAfter = returned[k].memoBefore
        /\ \A j \in Translations :
              j < k /\ returned[j].typ = returned[k].typ /\ ~returned[j].err
              => /\ returned[k].memoBefore[returned[k].typ] # NIL
                 /\ returned[k].vt = returned[j].vt

\* a struct that registered a Type was translated a second time
C6_Witness ==
    \E j, k \in Translations :
        /\ j < k
        /\ returned[j].typ = returned[k].typ
        /\ ~returned[j].err
        /\ returned[j].after # returned[j].before

(* ----------------------------------------------------------------------- *)
(* C7.  A successful call ParseStruct(N, struct) appends one Struct Type   *)
(* for that struct, and the result is a StructRef named N whose handle is  *)
(* that record, which is named N.                                          *)
(* ----------------------------------------------------------------------- *)

Flattenings == {k \in 1..Len(returned) : returned[k].entry = "ParseStruct" /\ ~returned[k].err}

\* the handles a call appended to Schema.Types
Appended(r) == {r.after[j] : j \in (Len(r.before) + 1)..Len(r.after)}

C7_OneTypePerFlattening ==
    \A k \in Flattenings :
        /\ Cardinality({h \in Appended(returned[k]) :
                           typeHeap[h].src = host[returned[k].typ].underlying}) = 1
        /\ heap[returned[k].vt].Type = "T_Struct"
        /\ heap[returned[k].vt].SName = structTypeName(host[returned[k].typ].name)
        /\ heap[returned[k].vt].SType \in Appended(returned[k])
        /\ typeHeap[heap[returned[k].vt].SType].src = host[returned[k].typ].underlying
        /\ typeHeap[heap[returned[k].vt].SType].Name
               = structTypeName(host[returned[k].typ].name)

(* ----------------------------------------------------------------------- *)
(* C8.  When no call is running, a struct with an embedded or inline field *)
(* of type S or *S holds every field name of S's Type exactly once, and    *)
(* the fields it took from S stand in S's order.                           *)
(* ----------------------------------------------------------------------- *)

\* the host fields of struct s that are promoted
PromotedFields(s) ==
    {i \in 1..Len(host[s].fields) :
        /\ host[s].fields[i].exported
        /\ getJsonTag(host[s].fields[i].tag).Name # "-"
        /\ host[s].fields[i].embedded \/ GetJsonTag(host[s].fields[i].tag).Inline
        /\ StructBehind(host[s].fields[i].typ) # ""}

Holds(outer, inner) ==
    /\ \A a \in 1..Len(inner) :
          Cardinality({i \in 1..Len(outer) : outer[i].Name = inner[a].Name}) = 1
    /\ \A a, b \in 1..Len(inner) : \A i, j \in 1..Len(outer) :
          a < b /\ outer[i] = inner[a] /\ outer[j] = inner[b] => i < j

C8_PromotionComplete ==
    Quiet =>
        \A h, g \in RegisteredStructs : \A i \in PromotedFields(typeHeap[h].src) :
            typeHeap[g].src = host[StructBehind(host[typeHeap[h].src].fields[i].typ)].underlying
            => Holds(typeHeap[h].Fields, typeHeap[g].Fields)

(* ----------------------------------------------------------------------- *)
(* C9.  A field that is unexported or whose tag name is "-" leaves nothing *)
(* in the Struct Type: no field made from it and, when it is embedded or   *)
(* inline, no field of the struct behind it.                               *)
(* ----------------------------------------------------------------------- *)

Ignored(f) == ~f.exported \/ getJsonTag(f.tag).Name = "-"

C9_IgnoredFieldsAbsent ==
    \A h \in StructTypes : \A i \in 1..Len(host[typeHeap[h].src].fields) :
        Ignored(host[typeHeap[h].src].fields[i])
        => \A k \in 1..Len(typeHeap[h].Fields) :
              /\ typeHeap[h].Fields[k].origin # <<typeHeap[h].src, i>>
              /\ StructBehind(host[typeHeap[h].src].fields[i].typ) # ""
                 => typeHeap[h].Fields[k].origin[1]
                        # host[StructBehind(host[typeHeap[h].src].fields[i].typ)].underlying

(* ----------------------------------------------------------------------- *)
(* C10.  A field is Optional when its tag has omitempty, when its          *)
(* underlying host type is a pointer, or when its tag has the string       *)
(* option and its host type is not a string.                               *)
(* ----------------------------------------------------------------------- *)

MustBeOptional(f) ==
    \/ getJsonTag(f.tag).Omitempty
    \/ host[Underlying(f.typ)].kind = "pointer"
    \/ getJsonTag(f.tag).IsString /\ host[Underlying(f.typ)] # Basic("string")

C10_OptionalFlag ==
    \A h \in StructTypes : \A k \in 1..Len(typeHeap[h].Fields) :
        MustBeOptional(HostField(typeHeap[h].Fields[k])) => typeHeap[h].Fields[k].Optional

(* ----------------------------------------------------------------------- *)
(* C11.  A field whose tag has the string option is emitted with a String  *)
(* VarType; Meta records the host type expression under go.field.type and  *)
(* the raw tag under go.tag.json; emitting it translates no type and       *)
(* registers no Type.                                                      *)
(* ----------------------------------------------------------------------- *)

\* what the raw tag of a host field says
TagHas(tag, o) == tag.present /\ HasOpt(tag.opts, o)

RawTag(tag) == tag.name \o JoinOpts(tag.opts)

MetaValues(meta, key) == {meta[j][2] : j \in {i \in 1..Len(meta) : meta[i][1] = key}}

\* the host type expression of a field; internal/parser prefixes it for omitempty
TypeExpression(hf) ==
    IF walker = "gospeak" THEN goTypeName(hf.typ)
    ELSE IF TagHas(hf.tag, "omitempty") THEN "*" \o GoTypeName(hf.typ)
    ELSE GoTypeName(hf.typ)

StringFieldShape(f) ==
    /\ heap[f.Type] = VarType("string", "T_String")
    /\ MetaValues(f.Meta, "go.field.type") = {TypeExpression(HostField(f))}
    /\ MetaValues(f.Meta, "go.tag.json") = {RawTag(HostField(f).tag)}

StringFieldsAreStrings ==
    \A h \in StructTypes : \A k \in 1..Len(typeHeap[h].Fields) :
        TagHas(HostField(typeHeap[h].Fields[k]).tag, "string")
        => StringFieldShape(typeHeap[h].Fields[k])

\* the loop stands at a field that is emitted with the string option
AtStringField ==
    /\ InLoop
    /\ CurField.exported /\ ~CurField.embedded
    /\ CurField.tag.name # "-"
    /\ TagHas(CurField.tag, "string")

StringFieldTranslatesNothing ==
    AtStringField =>
        /\ parsedTypes' = parsedTypes /\ schemaTypes' = schemaTypes
        /\ Len(typeHeap') = Len(typeHeap) /\ Len(stack') = Len(stack)
        /\ Len(typeHeap'[Top.st].Fields) > 0
        /\ typeHeap'[Top.st].Fields[Len(typeHeap'[Top.st].Fields)].origin = <<Top.typ, Top.i>>

\* Account's only use of Base is the string field Owner
NoTypeForCoerced ==
    \A k \in 1..Len(returned) :
        returned[k].typ = "Account"
        => \A h \in Appended(returned[k]) : typeHeap[h].src # "Base_s"

C12_OmitemptyPrefix ==
    walker = "parser" =>
        \A h \in StructTypes : \A k \in 1..Len(typeHeap[h].Fields) :
            TagHas(HostField(typeHeap[h].Fields[k]).tag, "omitempty")
            => /\ typeHeap[h].Fields[k].Optional
               /\ MetaValues(typeHeap[h].Fields[k].Meta, "go.field.type")
                      = {"*" \o GoTypeName(HostField(typeHeap[h].Fields[k]).typ)}

(* ----------------------------------------------------------------------- *)
(* C13.  The Meta of an emitted field is go.field.name, go.field.type,     *)
(* then go.type.import exactly when the type's defining package is not the *)
(* schema's package, not the package of time and the type is not a         *)
(* primitive, then go.tag.json exactly when the field has a json tag.      *)
(* ----------------------------------------------------------------------- *)

\* the package that defines the type behind pointers, slices, arrays and maps
DefiningPkgOf[t \in TypeIds] ==
    IF host[t].kind = "named" THEN host[t].pkg
    ELSE IF host[t].elem \in TypeIds THEN DefiningPkgOf[host[t].elem]
    ELSE <<>>

NeedsImport(t) == DefiningPkgOf[t] \notin {<<>>, schemaPkgName, <<"time">>}

MetaKeys(meta) == [j \in 1..Len(meta) |-> meta[j][1]]

ExpectedMetaKeys(hf) ==
    <<"go.field.name", "go.field.type">>
    \o (IF NeedsImport(hf.typ) THEN <<"go.type.import">> ELSE <<>>)
    \o (IF hf.tag.present THEN <<"go.tag.json">> ELSE <<>>)

C13_MetaOrder ==
    \A h \in StructTypes : \A k \in 1..Len(typeHeap[h].Fields) :
        /\ MetaKeys(typeHeap[h].Fields[k].Meta)
               = ExpectedMetaKeys(HostField(typeHeap[h].Fields[k]))
        /\ typeHeap[h].Fields[k].Meta[1][2] = HostField(typeHeap[h].Fields[k]).name
        /\ MetaValues(typeHeap[h].Fields[k].Meta, "go.type.import")
               \subseteq {JoinPath(DefiningPkgOf[HostField(typeHeap[h].Fields[k]).typ])}
        /\ MetaValues(typeHeap[h].Fields[k].Meta, "go.tag.json")
               \subseteq {RawTag(HostField(typeHeap[h].Fields[k]).tag)}

(* ----------------------------------------------------------------------- *)
(* C14.  A field of type time.Time is translated to the Timestamp VarType  *)
(* with expression "timestamp", never to String or Any.                    *)
(* ----------------------------------------------------------------------- *)

IsStdTime(t) == host[t].kind = "named" /\ host[t].pkg = <<"time">> /\ host[t].name = "Time"

C14_Timestamp ==
    \A h \in StructTypes : \A k \in 1..Len(typeHeap[h].Fields) :
        /\ IsStdTime(HostField(typeHeap[h].Fields[k]).typ)
        /\ ~TagHas(HostField(typeHeap[h].Fields[k]).tag, "string")
        => heap[typeHeap[h].Fields[k].Type] = VarType("timestamp", "T_Timestamp")

(* ----------------------------------------------------------------------- *)
(* C15.  A named type with both MarshalText and UnmarshalText becomes a     *)
(* String whatever its underlying type and whatever other marshaler it      *)
(* has; its underlying type is not visited and no Type is made for it.  A   *)
(* type with one half only is translated by its underlying type, without    *)
(* an error.  (time.Time is the matter of the timestamp rule.)              *)
(* ----------------------------------------------------------------------- *)

HasTextPair(t) == host[t].kind = "named" /\ TextPair \subseteq host[t].methods

HasOneHalf(t) ==
    /\ host[t].kind = "named"
    /\ host[t].methods \cap TextPair # {}
    /\ ~(TextPair \subseteq host[t].methods)
    /\ ~(JsonPair \subseteq host[t].methods)

\* the fields whose type the walker was called on
WalkedField(hf) == ~TagHas(hf.tag, "string")

TextFieldsAreStrings ==
    \A h \in StructTypes : \A k \in 1..Len(typeHeap[h].Fields) :
        /\ HasTextPair(HostField(typeHeap[h].Fields[k]).typ)
        /\ ~IsStdTime(HostField(typeHeap[h].Fields[k]).typ)
        /\ WalkedField(HostField(typeHeap[h].Fields[k]))
        => heap[typeHeap[h].Fields[k].Type] = VarType("string", "T_String")

UnderlyingNotVisited ==
    \A t \in TypeIds : HasTextPair(t) =>
        /\ \A h \in 1..Len(typeHeap) : typeHeap[h].src # host[t].underlying
        /\ host[host[t].underlying].kind \in {"struct", "array"}
           => parsedTypes[host[t].underlying] = NIL

HalfFieldsByUnderlying ==
    \A h \in StructTypes : \A k \in 1..Len(typeHeap[h].Fields) :
        /\ HasOneHalf(HostField(typeHeap[h].Fields[k]).typ)
        /\ WalkedField(HostField(typeHeap[h].Fields[k]))
        /\ host[host[HostField(typeHeap[h].Fields[k]).typ].underlying].kind = "basic"
        => /\ heap[typeHeap[h].Fields[k].Type].Expr
                = host[host[HostField(typeHeap[h].Fields[k]).typ].underlying].name
           /\ heap[typeHeap[h].Fields[k].Type].Type \notin {"T_String", "T_Any", T_Unset}

EventTranslates == \A k \in 1..Len(returned) : returned[k].typ = "Event" => ~returned[k].err

AtTextMarshaler ==
    /\ At("parseNamedType", "switch")
    /\ HasTextPair(Top.typ) /\ ~IsStdTime(Top.typ)

TextMarshalerIsLeaf ==
    AtTextMarshaler =>
        /\ Len(stack') = Len(stack) /\ stack'[Len(stack)].pc = "defer"
        /\ typeHeap' = typeHeap /\ schemaTypes' = schemaTypes /\ parsedTypes' = parsedTypes
        /\ ~ret'.err /\ heap'[ret'.vt] = VarType("string", "T_String")

C15_TextMarshalerIsString ==
    /\ [](TextFieldsAreStrings /\ UnderlyingNotVisited /\ HalfFieldsByUnderlying
          /\ EventTranslates)
    /\ [][TextMarshalerIsLeaf]_vars

C15_Witness ==
    \E h \in Registered :
        /\ typeHeap[h].src = "Event_s"
        /\ Len(typeHeap[h].Fields) = 5
        /\ heap[typeHeap[h].Fields[2].Type].Type = "T_String"
        /\ heap[typeHeap[h].Fields[3].Type].Type = "T_String"
        /\ heap[typeHeap[h].Fields[4].Type].Type = "T_String"
        /\ heap[typeHeap[h].Fields[5].Type].Expr = "int"
        /\ \E k \in 1..Len(returned) : returned[k].typ = "Event" /\ ~returned[k].err

(* ----------------------------------------------------------------------- *)
(* C16.  A Map VarType only ever has a primitive or string-like key kind:   *)
(* a map keyed by a struct, a list, a map or an any type is refused.        *)
(* ----------------------------------------------------------------------- *)

NonKeyKinds == {"T_Struct", "T_List", "T_Map", "T_Any"}

C16_MapKeyIsPrimitive ==
    /\ \A v \in 1..Len(heap) : heap[v].Type = "T_Map" => heap[v].Key \notin NonKeyKinds
    /\ \A k \in 1..Len(returned) :
           /\ returned[k].entry = "parseType"
           /\ host[returned[k].typ].kind = "map"
           /\ host[Underlying(host[returned[k].typ].key)].kind \in {"struct", "slice", "map", "interface"}
           => returned[k].err

(* ----------------------------------------------------------------------- *)
(* C17.  A call that visits a type of a kind the walker cannot encode       *)
(* returns an error and no VarType: the step that meets the type fails,     *)
(* every enclosing step hands the failure on, and the caller receives it.   *)
(* ----------------------------------------------------------------------- *)

EncodableKinds == {"named", "basic", "struct", "slice", "interface", "map", "pointer"}

AtUnsupported ==
    At("parseNamedType", "switch") /\ host[Top.typ].kind \notin EncodableKinds

UnsupportedFails == AtUnsupported => ret'.err /\ ret'.vt = NIL

\* a failure in flight: no step clears it, pushes a call or stores a record
ErrorPropagates ==
    (ret.err /\ cur # NoCall) =>
        /\ ret'.err /\ ret'.vt = NIL
        /\ Len(stack') <= Len(stack)
        /\ \A k \in 1..Len(stack') : stack'[k].fn = stack[k].fn
        /\ typeHeap' = typeHeap /\ schemaTypes' = schemaTypes /\ heap' = heap

FailedCallsReturnNothing ==
    \A k \in 1..Len(returned) : returned[k].err => returned[k].vt = NIL

\* Holder embeds Evt, whose field Subs is a []map[string]*chan int
HolderFails ==
    \A k \in 1..Len(returned) :
        (returned[k].typ = "Holder" /\ returned[k].memoBefore["Holder"] = NIL)
        => returned[k].err

C17_UnsupportedPropagates ==
    /\ [](FailedCallsReturnNothing /\ HolderFails /\ (ret.err => ret.vt = NIL))
    /\ [][UnsupportedFails /\ ErrorPropagates]_vars

C17_Witness ==
    /\ parsedTypes["ch_int"] # NIL /\ parsedTypes["p_ch"] # NIL /\ parsedTypes["m_p_ch"] # NIL
    /\ parsedTypes["s_m_p_ch"] # NIL /\ parsedTypes["Evt"] # NIL
    /\ \E k \in 1..Len(returned) :
           returned[k].typ = "Holder" /\ returned[k].err /\ returned[k].vt = NIL

(* ----------------------------------------------------------------------- *)
(* C18.  A top-level call that returns an error leaves Schema.Types as it   *)
(* was before the call.                                                      *)
(* ----------------------------------------------------------------------- *)

C18_FailureLeavesSchema ==
    \A k \in 1..Len(returned) : returned[k].err => returned[k].after = returned[k].before

(* ----------------------------------------------------------------------- *)
(* C19.  Schema.Types is in completion order.  A struct B that the          *)
(* translation of struct A reaches through A's fields (pointers, slices,    *)
(* maps, promotion) is appended before A, unless B was entered before A     *)
(* (a reference cycle): then B is appended after A.  Records already in     *)
(* Schema.Types keep their place.                                            *)
(* ----------------------------------------------------------------------- *)

\* typeHeap handles are allocated when a flattener is entered: a smaller handle was
\* entered earlier
PositionOf(h) == CHOOSE k \in 1..Len(schemaTypes) : schemaTypes[k] = h

MaxNesting == 4

\* the struct Types a VarType refers to, through lists and maps
RECURSIVE StructsOf(_, _)
StructsOf(v, fuel) ==
    IF v = NIL \/ fuel = 0 THEN {}
    ELSE IF heap[v].Type = "T_Struct" THEN {heap[v].SType} \ {NIL}
    ELSE IF heap[v].Type = "T_List" THEN StructsOf(heap[v].Elem, fuel - 1)
    ELSE IF heap[v].Type = "T_Map" THEN StructsOf(heap[v].Value, fuel - 1)
    ELSE {}

\* the struct Types whose fields were promoted into a
PromotedFrom(a) ==
    {b \in StructTypes : \E k \in 1..Len(typeHeap[a].Fields) :
        typeHeap[a].Fields[k].origin[1] = typeHeap[b].src /\ typeHeap[b].src # typeHeap[a].src}

ReachedFrom(a) ==
    (UNION {StructsOf(typeHeap[a].Fields[k].Type, MaxNesting) :
                k \in 1..Len(typeHeap[a].Fields)} \cup PromotedFrom(a))
    \cap {b \in StructTypes : typeHeap[b].src # typeHeap[a].src}

\* b > a: b was entered after a, so a was still running when it reached b
InnerBeforeOuter ==
    \A a \in RegisteredStructs : \A b \in ReachedFrom(a) :
        b > a => b \in Registered /\ PositionOf(b) < PositionOf(a)

\* a flattener that is still running has not been appended: the struct entered
\* first is appended after everything entered inside it
RunningNotAppended ==
    \A k \in 1..Len(stack) : stack[k].fn = "parseStruct" => stack[k].st \notin Registered

AppendsOwnRecordLast ==
    (At("parseStruct", "loop") /\ schemaTypes' # schemaTypes)
    => schemaTypes'[Len(schemaTypes')] = Top.st

OrderKept ==
    /\ Len(schemaTypes') >= Len(schemaTypes)
    /\ SubSeq(schemaTypes', 1, Len(schemaTypes)) = schemaTypes

C19_CompletionOrder ==
    /\ [](InnerBeforeOuter /\ RunningNotAppended)
    /\ [][OrderKept /\ AppendsOwnRecordLast]_vars

C19_Witness ==
    /\ walker = "gospeak"
    /\ Len(schemaTypes) = 3
    /\ typeHeap[schemaTypes[1]].src = "Base_s"
    /\ typeHeap[schemaTypes[2]].src = "Pong_s"
    /\ typeHeap[schemaTypes[3]].src = "Ping_s"
    /\ schemaTypes[3] < schemaTypes[2]
    /\ schemaTypes[2] \in ReachedFrom(schemaTypes[3])

(* ----------------------------------------------------------------------- *)
(* C20.  Records are frozen once their top-level call has returned: a       *)
(* later call changes no VarType that existed when it began, and no name,   *)
(* kind or field list of a Type that was in Schema.Types when it began,     *)
(* also when it promotes the fields of such a Type and overrides them.      *)
(* ----------------------------------------------------------------------- *)

EarlierVarTypesFrozen ==
    cur # NoCall =>
        /\ Len(heap) >= Len(cur.heap)
        /\ \A v \in 1..Len(cur.heap) : heap[v] = cur.heap[v]

EarlierTypesFrozen ==
    cur # NoCall =>
        \A k \in 1..Len(cur.types) :
            /\ schemaTypes[k] = cur.types[k]
            /\ typeHeap[cur.types[k]].Name = cur.typeHeap[cur.types[k]].Name
            /\ typeHeap[cur.types[k]].Kind = cur.typeHeap[cur.types[k]].Kind
            /\ typeHeap[cur.types[k]].Fields = cur.typeHeap[cur.types[k]].Fields

\* between two calls nothing is written
NothingWrittenBetweenCalls ==
    Quiet => /\ heap' = heap /\ schemaTypes' = schemaTypes
             /\ SubSeq(typeHeap', 1, Len(typeHeap)) = typeHeap

C20_RecordsFrozen ==
    /\ [](EarlierVarTypesFrozen /\ EarlierTypesFrozen)
    /\ [][NothingWrittenBetweenCalls]_vars

\* Base was registered by the first call; the second call has flattened Child, where
\* the promoted Base.Kind replaced Child's own Kind
C20_Witness ==
    /\ Len(returned) = 1 /\ returned[1].typ = "Base" /\ ~returned[1].err
    /\ cur.typ = "Child" /\ stack = <<>> /\ ~ret.err
    /\ Len(schemaTypes) = 2
    /\ typeHeap[schemaTypes[1]].src = "Base_s"
    /\ typeHeap[schemaTypes[2]].src = "Child_s"
    /\ FieldNames(typeHeap[schemaTypes[1]].Fields) = <<"ID", "Kind">>
    /\ \E k \in 1..Len(typeHeap[schemaTypes[2]].Fields) :
           /\ typeHeap[schemaTypes[2]].Fields[k].Name = "Kind"
           /\ typeHeap[schemaTypes[2]].Fields[k].origin = <<"Base_s", 2>>

(* ----------------------------------------------------------------------- *)
(* C21.  In the walker of types.go the Type made for a field whose type is  *)
(* an unnamed struct literal is named <ParentName>Anonymous<FieldName>,     *)
(* ParentName being the name of the enclosing struct's Type; the Type of a  *)
(* named struct carries the named type's own name.                          *)
(* ----------------------------------------------------------------------- *)

\* the named types declared with struct s as their underlying type
DeclaredAs(s) == {t \in TypeIds : host[t].kind = "named" /\ host[t].underlying = s}

\* the fields <<parent struct, index>> whose type is the struct literal s itself
LiteralFieldsOf(s) ==
    UNION {{<<p, i>> : i \in {j \in 1..Len(host[p].fields) : host[p].fields[j].typ = s}} :
              p \in {q \in TypeIds : host[q].kind = "struct"}}

AnonymousFieldNamed ==
    \A h \in StructTypes :
        (DeclaredAs(typeHeap[h].src) = {} /\ LiteralFieldsOf(typeHeap[h].src) # {})
        => \E o \in LiteralFieldsOf(typeHeap[h].src) : \E p \in StructTypes :
               /\ typeHeap[p].src = o[1]
               /\ typeHeap[h].Name
                    = typeHeap[p].Name \o "Anonymous" \o host[o[1]].fields[o[2]].name

NamedStructKeepsName ==
    \A h \in StructTypes : \A t \in DeclaredAs(typeHeap[h].src) :
        typeHeap[h].Name = host[t].name

\* the flattener is entered for a field's own type: the name it is handed
AtFieldStruct ==
    /\ At("parseNamedType", "switch")
    /\ host[Top.typ].kind = "struct"
    /\ Len(stack) >= 2
    /\ stack[Len(stack) - 1].fn = "parseStruct" /\ stack[Len(stack) - 1].pc = "field"

FieldStructNamedAfterParent ==
    AtFieldStruct =>
        /\ Len(typeHeap') = Len(typeHeap) + 1
        /\ typeHeap'[Len(typeHeap')].Name
             = typeHeap[stack[Len(stack) - 1].st].Name \o "Anonymous"
               \o host[stack[Len(stack) - 1].typ].fields[stack[Len(stack) - 1].i].name

EnumDecls == {k \in 1..Len(PkgSyntax) : PkgSyntax[k].rhs = "Enum"}

VariantsOfBlock(fields, doc) ==
    /\ Len(fields) = Len(doc)
    /\ \A j \in 1..Len(doc) :
           /\ fields[j].Name = doc[j].name
           /\ fields[j].Value = IF doc[j].eq THEN doc[j].value ELSE NatString(j - 1)

C22_EnumOwnBlock ==
    \A h \in 1..Len(typeHeap) : typeHeap[h].Kind = "enum" =>
        \E k \in EnumDecls : VariantsOfBlock(typeHeap[h].Fields, PkgSyntax[k].doc)

(* ----------------------------------------------------------------------- *)
(* C23.  A named array type without a marshaler pair whose element is not   *)
(* a primitive (type Pair [2]Base) translates like the named slice: to a    *)
(* List of the element's translation, without an error.                     *)
(* ----------------------------------------------------------------------- *)

IsPlainNamedArray(t) ==
    /\ host[t].kind = "named"
    /\ host[host[t].underlying].kind = "array"
    /\ ~(TextPair \subseteq host[t].methods) /\ ~(JsonPair \subseteq host[t].methods)
    /\ host[Underlying(host[host[t].underlying].elem)].kind # "basic"

C23_NamedArrayIsList ==
    \A k \in 1..Len(returned) :
        (returned[k].entry = "parseType" /\ IsPlainNamedArray(returned[k].typ)
            /\ returned[k].memoBefore[returned[k].typ] = NIL)
        => /\ ~returned[k].err
           /\ returned[k].vt # NIL
           /\ heap[returned[k].vt].Type = "T_List"

(* ----------------------------------------------------------------------- *)
(* C24.  Once a top-level call has returned, the expression of every List   *)
(* is "[]" followed by the expression its element has then, and that of     *)
(* every Map is built from the expressions of its key and value, also when  *)
(* the element was a memo placeholder when the List or Map was built.       *)
(* ----------------------------------------------------------------------- *)

ListExprFinal(v) == heap[v].Expr = "[]" \o heap[heap[v].Elem].Expr

MapExprFinal(v) ==
    \E k \in 1..Len(heap) :
        /\ heap[k].Type = heap[v].Key
        /\ heap[v].Expr = "map<" \o heap[k].Expr \o "," \o heap[heap[v].Value].Expr \o ">"

C24_ExprsFinal ==
    Quiet =>
        \A v \in 1..Len(heap) :
            /\ heap[v].Type = "T_List" => ListExprFinal(v)
            /\ heap[v].Type = "T_Map" => MapExprFinal(v)

(* ----------------------------------------------------------------------- *)
(* C25.  Errors are sticky: once translating type T has returned an error,  *)
(* a later translation of T returns an error too, and no call returns a     *)
(* nil error together with a placeholder VarType whose kind is unset.       *)
(* ----------------------------------------------------------------------- *)

FailedAgain ==
    \A k, l \in Translations :
        (k < l /\ returned[k].err /\ returned[l].typ = returned[k].typ) => returned[l].err

NoEmptyResult ==
    \A k \in Translations :
        ~returned[k].err => returned[k].vt # NIL /\ heap[returned[k].vt].Type # T_Unset

C25_ErrorsSticky == FailedAgain /\ NoEmptyResult

(* ----------------------------------------------------------------------- *)
(* C26.  appendOrOverrideExistingField never slices out of range when the   *)
(* struct flattener calls it.  The field list it is handed never holds two  *)
(* entries of one name, because every list starts empty and is written by   *)
(* the flattener that owns it, through this function only.                   *)
(* ----------------------------------------------------------------------- *)

OneEntryPerName ==
    \A h \in StructTypes : \A k \in 1..Len(typeHeap[h].Fields) :
        Cardinality({j \in 1..Len(typeHeap[h].Fields) :
                        typeHeap[h].Fields[j].Name = typeHeap[h].Fields[k].Name}) = 1

ListsStartEmpty ==
    \A h \in (Len(typeHeap) + 1)..Len(typeHeap') :
        typeHeap'[h].Kind = "struct" => typeHeap'[h].Fields = <<>>

OnlyOwnListWritten ==
    \A h \in StructTypes :
        typeHeap'[h].Fields # typeHeap[h].Fields
        => stack # <<>> /\ Top.fn = "parseStruct" /\ Top.st = h

C26_NoOutOfRange ==
    /\ [](~panicked /\ OneEntryPerName)
    /\ [][ListsStartEmpty /\ OnlyOwnListWritten]_vars

\* Clash: the promoted Base.Kind replaced the own Kind, and Sort, tagged Kind, replaced
\* that one in turn
C26_Witness ==
    /\ ~panicked
    /\ \E h \in Registered :
           /\ typeHeap[h].src = "Clash_s"
           /\ FieldNames(typeHeap[h].Fields) = <<"ID", "Kind">>
           /\ typeHeap[h].Fields[2].origin = <<"Clash_s", 3>>

====
